---- MODULE Spec2Model ----
(***************************************************************************)
(* Model of CustomOvenControl.ino: the oven state machine of loop(), the   *)
(* keypad entry of readInputs(), the five handlers perform*() and the      *)
(* one-second countdown at the end of loop().                              *)
(*                                                                         *)
(* One control cycle (one call of loop()) is one action, except the cycle  *)
(* in which performVentilation() sounds the alarm: that cycle blocks in    *)
(* delay() ten times, so it is a start step, ten pin writes and an end     *)
(* step, with pc and the loop counter i giving the position.               *)
(*                                                                         *)
(* Not modelled: the LCD (write-only), the globals startTime2 (written and *)
(* read only inside the countdown block, a LET here) and elapsedTime       *)
(* (never used), and the samples of calculateAverageTemperature() that are *)
(* only printed.                                                           *)
(***************************************************************************)
EXTENDS Integers, Sequences, FiniteSets, TLC

(* ---- program constants ------------------------------------------------ *)
INPUT_PHASE == 0
HEATING == 1
COOLING == 2
BAKING == 3
END_OF_BAKING == 4
VENTILATION == 5

LOW == 0
HIGH == 1

\* Keypad::getKey() returns NO_KEY ('\0') when no key event is pending.
NO_KEY == "none"
DigitKeys == {"0", "1", "2", "3", "4", "5", "6", "7", "8", "9"}
hexaKeys == DigitKeys \cup {"A", "B", "C", "D", "*", "#"}

\* The character code of a key (ASCII), as the comparisons on char use it.
KeyCode(k) ==
  CASE k = "none" -> 0
    [] k = "#" -> 35
    [] k = "*" -> 42
    [] k = "0" -> 48
    [] k = "1" -> 49
    [] k = "2" -> 50
    [] k = "3" -> 51
    [] k = "4" -> 52
    [] k = "5" -> 53
    [] k = "6" -> 54
    [] k = "7" -> 55
    [] k = "8" -> 56
    [] k = "9" -> 57
    [] k = "A" -> 65
    [] k = "B" -> 66
    [] k = "C" -> 67
    [] k = "D" -> 68

\* long on the target is 32 bits wide: its largest value, and the size of
\* one 16-bit half of it (the arithmetic below works on halves, so that no
\* intermediate value leaves the 32-bit range).
LONG_MAX == 2147483647
Half == 65536

(* ---- bounds of the model ---------------------------------------------- *)
\* The clock is not advanced past MaxMillis.
MaxMillis == 5000
\* Time that passes between the starts of two consecutive control cycles:
\* none, less than the countdown's second, exactly it, and more than two.
Advances == {0, 500, 1000, 2500}
\* Values calculateAverageTemperature() returns, in increasing order: both
\* sides of every threshold of the handlers for the target 30 (deficit 30
\* and 20, the target, the +5 band) and of the venting threshold 30.
TempGrid == <<0, 1, 10, 11, 29, 30, 35, 36>>
Temps == {TempGrid[k] : k \in 1..Len(TempGrid)}
\* Two consecutive samples of one cycle are equal or neighbours in TempGrid.
Near(a, b) ==
  \E k \in 1..Len(TempGrid) :
    /\ TempGrid[k] = a
    /\ \/ b = a
       \/ k > 1 /\ TempGrid[k - 1] = b
       \/ k < Len(TempGrid) /\ TempGrid[k + 1] = b
\* The samples a handler that takes up to two, or three, samples can see in
\* one cycle.
Samples2 == {t \in [1..2 -> Temps] : Near(t[1], t[2])}
Samples3 == {t \in [1..3 -> Temps] : Near(t[1], t[2]) /\ Near(t[2], t[3])}
\* What the user types: the digits keyed in form a prefix of one of these
\* entries, and '#' is pressed on a complete entry or on the empty string.
\* The last duration does not fit a long.
TemperatureEntries == {<<"3", "0">>}
DurationEntries ==
  {<<"0">>, <<"1">>, <<"3", "0", "0", "0", "0", "0", "0", "0", "0", "0">>}

IsPrefix(s, t) == Len(s) <= Len(t) /\ SubSeq(t, 1, Len(s)) = s

VARIABLES
  ovenState,         \* char ovenState
  inputString,       \* String inputString, a sequence of key characters
  inputTemperature,  \* long inputTemperature
  inputTime,         \* long inputTime, the countdown in seconds
  tempOrTime,        \* char tempOrTime: 0 temperature entry, 1 time entry
  startTime1,        \* long startTime1, the timing reference
  millis,            \* the value millis() returns now
  fanPins,           \* levels of pins 22 and 24
  heatPins,          \* levels of pins 52, 50 and 48
  alarmPin,          \* level of pin 26
  customKey,         \* char customKey, what the latest getKey() returned
  pc,                \* "loop": between cycles; "alarm": inside the alarm loop
  i,                 \* loop counter of the alarm loop in performVentilation
  reading,           \* first sample the handler of the latest sampling cycle decided on
  steady             \* TRUE iff every sample that handler decided on was equal to reading

vars == <<ovenState, inputString, inputTemperature, inputTime, tempOrTime,
          startTime1, millis, fanPins, heatPins, alarmPin, customKey, pc, i,
          reading, steady>>

(* ---- actuators -------------------------------------------------------- *)
\* activateHeatingElements(numElements): levels of pins 52, 50, 48.
activateHeatingElements(numElements, pins) ==
  CASE numElements = 0 -> <<LOW, LOW, LOW>>
    [] numElements = 1 -> <<HIGH, LOW, LOW>>
    [] numElements = 2 -> <<HIGH, HIGH, LOW>>
    [] numElements = 3 -> <<HIGH, HIGH, HIGH>>
    [] OTHER -> pins

turnFanClockwise == <<HIGH, LOW>>
turnOffFan == <<LOW, LOW>>
turnFanAntiClockwise == <<LOW, HIGH>>

\* Number of heating elements that are on.
HeatingPower == heatPins[1] + heatPins[2] + heatPins[3]
FanForward == fanPins = <<HIGH, LOW>>
FanReverse == fanPins = <<LOW, HIGH>>
FanOff == fanPins = <<LOW, LOW>>

(* ---- keypad entry ----------------------------------------------------- *)
RECURSIVE atol(_)
\* atol() on a string of digit characters, as avr-libc computes it: the
\* accumulator is multiplied by 10 and the digit added, in 32 bits, with no
\* overflow check. The accumulator is kept as its two 16-bit halves; over
\* records whether the decimal value ever exceeded LONG_MAX.
atol(s) ==
  IF s = <<>> THEN [hi |-> 0, lo |-> 0, over |-> FALSE]
  ELSE LET a == atol(SubSeq(s, 1, Len(s) - 1))
           d == KeyCode(s[Len(s)]) - KeyCode("0")
           lo10 == a.lo * 10 + d
           hi10 == a.hi * 10 + lo10 \div Half
       IN  [hi |-> hi10 % Half, lo |-> lo10 % Half,
            over |-> a.over \/ hi10 >= Half \div 2]

\* The 32-bit accumulator read as a signed long.
AsLong(a) == (IF a.hi >= Half \div 2 THEN a.hi - Half ELSE a.hi) * Half + a.lo

\* String::toInt() is atol(buffer). A value beyond LONG_MAX is undefined
\* behaviour of atol: avr-libc (the accumulation above) wraps, a
\* strtol-based atol saturates at LONG_MAX.
toInt(s) ==
  IF atol(s).over THEN {AsLong(atol(s)), LONG_MAX} ELSE {AsLong(atol(s))}

\* readInputs() without the inputString.length() > 0 test of the time phase.
readInputsNoLength(key, now, v) ==
  LET same == [inputString |-> inputString, inputTemperature |-> inputTemperature,
               inputTime |-> inputTime, tempOrTime |-> tempOrTime,
               ovenState |-> ovenState, startTime1 |-> startTime1]
  IN
  IF tempOrTime = 0 THEN
    IF key = NO_KEY THEN same
    ELSE IF KeyCode(key) >= KeyCode("0") /\ KeyCode(key) <= KeyCode("9") THEN
      [same EXCEPT !.inputString = Append(inputString, key)]
    ELSE IF key = "#" THEN
      IF Len(inputString) > 0 THEN
        [same EXCEPT !.inputTemperature = v, !.inputString = <<>>, !.tempOrTime = 1]
      ELSE same
    ELSE same
  ELSE IF tempOrTime = 1 THEN
    IF key = NO_KEY THEN same
    ELSE IF KeyCode(key) >= KeyCode("0") /\ KeyCode(key) <= KeyCode("9") THEN
      [same EXCEPT !.inputString = Append(inputString, key)]
    ELSE IF key = "#" THEN
      [same EXCEPT !.startTime1 = now, !.inputTime = v, !.inputString = <<>>,
                   !.ovenState = HEATING, !.tempOrTime = 0]
    ELSE same
  ELSE same

\* readInputs() with getKey() returning key, millis() = now and toInt()
\* returning v: the new values of the globals it assigns.
readInputs(key, now, v) ==
  LET same == [inputString |-> inputString, inputTemperature |-> inputTemperature,
               inputTime |-> inputTime, tempOrTime |-> tempOrTime,
               ovenState |-> ovenState, startTime1 |-> startTime1]
  IN
  IF tempOrTime = 0 THEN
    IF key = NO_KEY THEN same
    ELSE IF KeyCode(key) >= KeyCode("0") /\ KeyCode(key) <= KeyCode("9") THEN
      [same EXCEPT !.inputString = Append(inputString, key)]
    ELSE IF key = "#" THEN
      IF Len(inputString) > 0 THEN
        [same EXCEPT !.inputTemperature = v, !.inputString = <<>>, !.tempOrTime = 1]
      ELSE same
    ELSE same
  ELSE IF tempOrTime = 1 THEN
    IF key = NO_KEY THEN same
    ELSE IF KeyCode(key) >= KeyCode("0") /\ KeyCode(key) <= KeyCode("9") THEN
      [same EXCEPT !.inputString = Append(inputString, key)]
    ELSE IF key = "#" THEN
      IF Len(inputString) > 0 THEN
        [same EXCEPT !.startTime1 = now, !.inputTime = v, !.inputString = <<>>,
                     !.ovenState = HEATING, !.tempOrTime = 0]
      ELSE [same EXCEPT !.startTime1 = now]
    ELSE same
  ELSE same

(* ---- handlers --------------------------------------------------------- *)
\* Each handler takes t, the samples of calculateAverageTemperature() in the
\* order its conditions take them, and gives the new oven state and pin
\* levels, and n, the number of samples it decided on.

\* performHeating() with the full-power threshold compared by > instead of >=.
performHeatingStrict(t) ==
  IF t[1] < inputTemperature THEN
    IF inputTemperature - t[2] > 30 THEN
      [ovenState |-> ovenState, fanPins |-> turnFanClockwise,
       heatPins |-> activateHeatingElements(3, heatPins), n |-> 2]
    ELSE IF inputTemperature - t[3] >= 20 THEN
      [ovenState |-> ovenState, fanPins |-> turnFanClockwise,
       heatPins |-> activateHeatingElements(2, heatPins), n |-> 3]
    ELSE
      [ovenState |-> ovenState, fanPins |-> turnFanClockwise,
       heatPins |-> activateHeatingElements(1, heatPins), n |-> 3]
  ELSE IF t[2] > inputTemperature + 5 THEN
    [ovenState |-> COOLING, fanPins |-> turnOffFan, heatPins |-> heatPins, n |-> 2]
  ELSE
    [ovenState |-> BAKING, fanPins |-> fanPins, heatPins |-> heatPins, n |-> 2]

\* performHeating(): samples at lines 232, then 235 and 237, or 242.
performHeating(t) ==
  IF t[1] < inputTemperature THEN
    IF inputTemperature - t[2] >= 30 THEN
      [ovenState |-> ovenState, fanPins |-> turnFanClockwise,
       heatPins |-> activateHeatingElements(3, heatPins), n |-> 2]
    ELSE IF inputTemperature - t[3] >= 20 THEN
      [ovenState |-> ovenState, fanPins |-> turnFanClockwise,
       heatPins |-> activateHeatingElements(2, heatPins), n |-> 3]
    ELSE
      [ovenState |-> ovenState, fanPins |-> turnFanClockwise,
       heatPins |-> activateHeatingElements(1, heatPins), n |-> 3]
  ELSE IF t[2] > inputTemperature + 5 THEN
    [ovenState |-> COOLING, fanPins |-> turnOffFan, heatPins |-> heatPins, n |-> 2]
  ELSE
    [ovenState |-> BAKING, fanPins |-> fanPins, heatPins |-> heatPins, n |-> 2]

\* performCooling() without its call of activateHeatingElements(0).
performCoolingHeatKept(t) ==
  IF t[1] > inputTemperature + 5 THEN
    [ovenState |-> ovenState, fanPins |-> turnFanAntiClockwise,
     heatPins |-> heatPins, n |-> 1]
  ELSE IF t[2] < inputTemperature THEN
    [ovenState |-> HEATING, fanPins |-> turnOffFan, heatPins |-> heatPins, n |-> 2]
  ELSE
    [ovenState |-> BAKING, fanPins |-> fanPins, heatPins |-> heatPins, n |-> 2]

\* performCooling() without the +5 band in its first comparison.
performCoolingNoBand(t) ==
  IF t[1] > inputTemperature THEN
    [ovenState |-> ovenState, fanPins |-> turnFanAntiClockwise,
     heatPins |-> activateHeatingElements(0, heatPins), n |-> 1]
  ELSE IF t[2] < inputTemperature THEN
    [ovenState |-> HEATING, fanPins |-> turnOffFan, heatPins |-> heatPins, n |-> 2]
  ELSE
    [ovenState |-> BAKING, fanPins |-> fanPins, heatPins |-> heatPins, n |-> 2]

\* performCooling(): samples at lines 261 and 264.
performCooling(t) ==
  IF t[1] > inputTemperature + 5 THEN
    [ovenState |-> ovenState, fanPins |-> turnFanAntiClockwise,
     heatPins |-> activateHeatingElements(0, heatPins), n |-> 1]
  ELSE IF t[2] < inputTemperature THEN
    [ovenState |-> HEATING, fanPins |-> turnOffFan, heatPins |-> heatPins, n |-> 2]
  ELSE
    [ovenState |-> BAKING, fanPins |-> fanPins, heatPins |-> heatPins, n |-> 2]

\* performBaking() without its call of activateHeatingElements(0).
performBakingHeatKept(t) ==
  LET fan == turnOffFan
      heat == heatPins
  IN
  IF t[1] > inputTemperature + 5 THEN
    [ovenState |-> COOLING, fanPins |-> fan, heatPins |-> heat, n |-> 1]
  ELSE IF t[2] < inputTemperature THEN
    [ovenState |-> HEATING, fanPins |-> fan, heatPins |-> heat, n |-> 2]
  ELSE
    [ovenState |-> ovenState, fanPins |-> fan, heatPins |-> heat, n |-> 2]

\* performBaking(): samples at lines 285 and 288.
performBaking(t) ==
  LET fan == turnOffFan
      heat == activateHeatingElements(0, heatPins)
  IN
  IF t[1] > inputTemperature + 5 THEN
    [ovenState |-> COOLING, fanPins |-> fan, heatPins |-> heat, n |-> 1]
  ELSE IF t[2] < inputTemperature THEN
    [ovenState |-> HEATING, fanPins |-> fan, heatPins |-> heat, n |-> 2]
  ELSE
    [ovenState |-> ovenState, fanPins |-> fan, heatPins |-> heat, n |-> 2]

\* performVentilation() with its second comparison <= 30 instead of < 30
\* (and the first > 30).
performVentilationAlarmAt30(t) ==
  IF t[1] > 30 THEN
    [alarm |-> FALSE, fanPins |-> turnFanAntiClockwise,
     heatPins |-> activateHeatingElements(0, heatPins), n |-> 1]
  ELSE IF t[2] <= 30 THEN
    [alarm |-> TRUE, fanPins |-> fanPins, heatPins |-> heatPins, n |-> 2]
  ELSE
    [alarm |-> FALSE, fanPins |-> fanPins, heatPins |-> heatPins, n |-> 2]

\* performVentilation() with its first comparison > 30 instead of >= 30.
performVentilationStrict(t) ==
  IF t[1] > 30 THEN
    [alarm |-> FALSE, fanPins |-> turnFanAntiClockwise,
     heatPins |-> activateHeatingElements(0, heatPins), n |-> 1]
  ELSE IF t[2] < 30 THEN
    [alarm |-> TRUE, fanPins |-> fanPins, heatPins |-> heatPins, n |-> 2]
  ELSE
    [alarm |-> FALSE, fanPins |-> fanPins, heatPins |-> heatPins, n |-> 2]

\* performVentilation() up to the alarm loop: samples at lines 303 and 306.
\* alarm is TRUE when the handler goes on into the alarm loop.
performVentilation(t) ==
  IF t[1] >= 30 THEN
    [alarm |-> FALSE, fanPins |-> turnFanAntiClockwise,
     heatPins |-> activateHeatingElements(0, heatPins), n |-> 1]
  ELSE IF t[2] < 30 THEN
    [alarm |-> TRUE, fanPins |-> fanPins, heatPins |-> heatPins, n |-> 2]
  ELSE
    [alarm |-> FALSE, fanPins |-> fanPins, heatPins |-> heatPins, n |-> 2]

\* performEndOfBaking() with the key compared by > '#' instead of >= '#'.
performEndOfBakingStrict(key) ==
  [ovenState |-> IF key # NO_KEY /\ KeyCode(key) > KeyCode("#")
                 THEN INPUT_PHASE ELSE ovenState,
   fanPins |-> turnOffFan,
   heatPins |-> activateHeatingElements(0, heatPins)]

\* performEndOfBaking() without its call of turnOffFan().
performEndOfBakingFanKept(key) ==
  [ovenState |-> IF key # NO_KEY /\ KeyCode(key) >= KeyCode("#")
                 THEN INPUT_PHASE ELSE ovenState,
   fanPins |-> fanPins,
   heatPins |-> activateHeatingElements(0, heatPins)]

\* performEndOfBaking() with getKey() returning key.
performEndOfBaking(key) ==
  [ovenState |-> IF key # NO_KEY /\ KeyCode(key) >= KeyCode("#")
                 THEN INPUT_PHASE ELSE ovenState,
   fanPins |-> turnOffFan,
   heatPins |-> activateHeatingElements(0, heatPins)]

(* ---- countdown -------------------------------------------------------- *)
\* The countdown block decrementing by the whole seconds elapsed instead
\* of by 1.
updateTimeByElapsed(os, it, st1, now) ==
  IF os # INPUT_PHASE /\ it > 0 THEN
    LET startTime2 == now IN
    IF startTime2 - st1 >= 1000 THEN
      [ovenState |-> IF it - (startTime2 - st1) \div 1000 <= 0 THEN VENTILATION ELSE os,
       inputTime |-> it - (startTime2 - st1) \div 1000, startTime1 |-> startTime2]
    ELSE [ovenState |-> os, inputTime |-> it, startTime1 |-> st1]
  ELSE [ovenState |-> os, inputTime |-> it, startTime1 |-> st1]

\* The countdown block without the inputTime > 0 part of its guard.
updateTimeNoGuard(os, it, st1, now) ==
  IF os # INPUT_PHASE THEN
    LET startTime2 == now IN
    IF startTime2 - st1 >= 1000 THEN
      [ovenState |-> IF it - 1 = 0 THEN VENTILATION ELSE os,
       inputTime |-> it - 1, startTime1 |-> startTime2]
    ELSE [ovenState |-> os, inputTime |-> it, startTime1 |-> st1]
  ELSE [ovenState |-> os, inputTime |-> it, startTime1 |-> st1]

\* The countdown block switching to VENTILATION on every decrement.
updateTimeAnyTick(os, it, st1, now) ==
  IF os # INPUT_PHASE /\ it > 0 THEN
    LET startTime2 == now IN
    IF startTime2 - st1 >= 1000 THEN
      [ovenState |-> IF it - 1 >= 0 THEN VENTILATION ELSE os,
       inputTime |-> it - 1, startTime1 |-> startTime2]
    ELSE [ovenState |-> os, inputTime |-> it, startTime1 |-> st1]
  ELSE [ovenState |-> os, inputTime |-> it, startTime1 |-> st1]

\* The countdown block with inputTime tested for 0 before the decrement.
updateTimeTestFirst(os, it, st1, now) ==
  IF os # INPUT_PHASE /\ it > 0 THEN
    LET startTime2 == now IN
    IF startTime2 - st1 >= 1000 THEN
      [ovenState |-> IF it = 0 THEN VENTILATION ELSE os,
       inputTime |-> it - 1, startTime1 |-> startTime2]
    ELSE [ovenState |-> os, inputTime |-> it, startTime1 |-> st1]
  ELSE [ovenState |-> os, inputTime |-> it, startTime1 |-> st1]

\* The block at the end of loop(), entered with oven state os, countdown it
\* and timing reference st1 as the handler left them, and millis() = now.
updateTime(os, it, st1, now) ==
  IF os # INPUT_PHASE /\ it > 0 THEN
    LET startTime2 == now IN
    IF startTime2 - st1 >= 1000 THEN
      [ovenState |-> IF it - 1 = 0 THEN VENTILATION ELSE os,
       inputTime |-> it - 1, startTime1 |-> startTime2]
    ELSE [ovenState |-> os, inputTime |-> it, startTime1 |-> st1]
  ELSE [ovenState |-> os, inputTime |-> it, startTime1 |-> st1]

SamplesSteady(t, n) == \A k \in 1..n : t[k] = t[1]
\* A handler that decides on n samples takes no more: the entries of t
\* after the n-th repeat it.
Taken(t, n) == \A k \in (n + 1)..Len(t) : t[k] = t[n]

(* ---- state machine ---------------------------------------------------- *)
\* The state after setup(): globals at their initialisers, all outputs low.
Init ==
  /\ ovenState = INPUT_PHASE
  /\ inputString = <<>>
  /\ inputTemperature = 0
  /\ inputTime = 0
  /\ tempOrTime = 0
  /\ startTime1 = 0
  /\ millis = 0
  /\ fanPins = turnOffFan
  /\ heatPins = <<LOW, LOW, LOW>>
  /\ alarmPin = LOW
  /\ customKey = NO_KEY
  /\ pc = "loop"
  /\ i = 0
  /\ reading = 0
  /\ steady = TRUE

\* The key events the keypad can deliver in the current state: no key, the
\* keys A-D and *, the digits that continue one of the entries typed, and
\* '#' on a complete entry or on the empty string.
KeysOffered ==
  LET entries == IF tempOrTime = 0 THEN TemperatureEntries ELSE DurationEntries
  IN  {NO_KEY} \cup (hexaKeys \ (DigitKeys \cup {"#"}))
        \cup {d \in DigitKeys : \E e \in entries : IsPrefix(Append(inputString, d), e)}
        \cup {k \in {"#"} : inputString = <<>> \/ inputString \in entries}

\* loop() in INPUT_PHASE.
CycleInput ==
  /\ pc = "loop"
  /\ ovenState = INPUT_PHASE
  /\ \E dt \in Advances, key \in KeysOffered, v \in toInt(inputString) :
       LET now == millis + dt
           r == readInputs(key, now, v)
           c == updateTime(r.ovenState, r.inputTime, r.startTime1, now)
       IN  /\ now <= MaxMillis
           /\ millis' = now
           /\ customKey' = key
           /\ inputString' = r.inputString
           /\ inputTemperature' = r.inputTemperature
           /\ tempOrTime' = r.tempOrTime
           /\ ovenState' = c.ovenState
           /\ inputTime' = c.inputTime
           /\ startTime1' = c.startTime1
  /\ UNCHANGED <<fanPins, heatPins, alarmPin, pc, i, reading, steady>>

\* The rest of a cycle whose handler (HEATING, COOLING or BAKING) gave h.
EndCycle(h, t, now) ==
  LET c == updateTime(h.ovenState, inputTime, startTime1, now)
  IN  /\ now <= MaxMillis
      /\ Taken(t, h.n)
      /\ millis' = now
      /\ fanPins' = h.fanPins
      /\ heatPins' = h.heatPins
      /\ ovenState' = c.ovenState
      /\ inputTime' = c.inputTime
      /\ startTime1' = c.startTime1
      /\ reading' = t[1]
      /\ steady' = SamplesSteady(t, h.n)
      /\ UNCHANGED <<inputString, inputTemperature, tempOrTime, alarmPin,
                     customKey, pc, i>>

\* loop() in HEATING.
CycleHeating ==
  /\ pc = "loop"
  /\ ovenState = HEATING
  /\ \E dt \in Advances, t \in Samples3 :
       EndCycle(performHeating(t), t, millis + dt)

\* loop() in COOLING.
CycleCooling ==
  /\ pc = "loop"
  /\ ovenState = COOLING
  /\ \E dt \in Advances, t \in Samples2 :
       EndCycle(performCooling(t), t, millis + dt)

\* loop() in BAKING.
CycleBaking ==
  /\ pc = "loop"
  /\ ovenState = BAKING
  /\ \E dt \in Advances, t \in Samples2 :
       EndCycle(performBaking(t), t, millis + dt)

\* loop() in VENTILATION: a whole cycle when the alarm is not sounded, else
\* the cycle up to the entry of the alarm loop (char i = 0).
CycleVentilation ==
  /\ pc = "loop"
  /\ ovenState = VENTILATION
  /\ \E dt \in Advances, t \in Samples2 :
       LET now == millis + dt
           h == performVentilation(t)
           c == updateTime(ovenState, inputTime, startTime1, now)
       IN  /\ now <= MaxMillis
           /\ Taken(t, h.n)
           /\ millis' = now
           /\ fanPins' = h.fanPins
           /\ heatPins' = h.heatPins
           /\ reading' = t[1]
           /\ steady' = SamplesSteady(t, h.n)
           /\ IF h.alarm
              THEN /\ pc' = "alarm"
                   /\ UNCHANGED <<ovenState, inputTime, startTime1>>
              ELSE /\ pc' = "loop"
                   /\ ovenState' = c.ovenState
                   /\ inputTime' = c.inputTime
                   /\ startTime1' = c.startTime1
  /\ i' = 0
  /\ UNCHANGED <<inputString, inputTemperature, tempOrTime, alarmPin, customKey>>

\* delay(300) of the alarm loop.
AlarmDelay == 300

\* digitalWrite(26, HIGH); delay(300);
AlarmHigh ==
  /\ pc = "alarm"
  /\ i < 5
  /\ alarmPin = LOW
  /\ millis + AlarmDelay <= MaxMillis
  /\ alarmPin' = HIGH
  /\ millis' = millis + AlarmDelay
  /\ UNCHANGED <<ovenState, inputString, inputTemperature, inputTime, tempOrTime,
                 startTime1, fanPins, heatPins, customKey, pc, i, reading, steady>>

\* digitalWrite(26, LOW); delay(300); i++
AlarmLow ==
  /\ pc = "alarm"
  /\ i < 5
  /\ alarmPin = HIGH
  /\ millis + AlarmDelay <= MaxMillis
  /\ alarmPin' = LOW
  /\ millis' = millis + AlarmDelay
  /\ i' = i + 1
  /\ UNCHANGED <<ovenState, inputString, inputTemperature, inputTime, tempOrTime,
                 startTime1, fanPins, heatPins, customKey, pc, reading, steady>>

\* The alarm loop ends: ovenState = END_OF_BAKING, and the cycle ends with
\* the countdown block.
AlarmDone ==
  /\ pc = "alarm"
  /\ i = 5
  /\ LET c == updateTime(END_OF_BAKING, inputTime, startTime1, millis)
     IN  /\ ovenState' = c.ovenState
         /\ inputTime' = c.inputTime
         /\ startTime1' = c.startTime1
  /\ pc' = "loop"
  /\ i' = 0
  /\ UNCHANGED <<inputString, inputTemperature, tempOrTime, millis, fanPins,
                 heatPins, alarmPin, customKey, reading, steady>>

\* loop() in END_OF_BAKING.
CycleEndOfBaking ==
  /\ pc = "loop"
  /\ ovenState = END_OF_BAKING
  /\ \E dt \in Advances, key \in {NO_KEY} \cup hexaKeys :
       LET now == millis + dt
           h == performEndOfBaking(key)
           c == updateTime(h.ovenState, inputTime, startTime1, now)
       IN  /\ now <= MaxMillis
           /\ millis' = now
           /\ fanPins' = h.fanPins
           /\ heatPins' = h.heatPins
           /\ ovenState' = c.ovenState
           /\ inputTime' = c.inputTime
           /\ startTime1' = c.startTime1
           /\ customKey' = key
  /\ UNCHANGED <<inputString, inputTemperature, tempOrTime, alarmPin, pc, i,
                 reading, steady>>

Next ==
  \/ CycleInput
  \/ CycleHeating
  \/ CycleCooling
  \/ CycleBaking
  \/ CycleVentilation
  \/ AlarmHigh
  \/ AlarmLow
  \/ AlarmDone
  \/ CycleEndOfBaking

Spec == Init /\ [][Next]_vars

(* ---- properties ------------------------------------------------------- *)
\* A step from a state with pc = "loop" is one whole control cycle, run by
\* the handler of ovenState (for VENTILATION with the alarm: its start).
AtCycle(st) == pc = "loop" /\ ovenState = st
\* The countdown is decremented from 1 to 0 in this step.
Expires == inputTime = 1 /\ inputTime' = 0
\* The state a cycle ends in when its handler selected st.
EndsIn(st) == ovenState' = IF Expires THEN VENTILATION ELSE st
\* The samples the handler decided on were all T.
Sampled(T) == steady' /\ reading' = T

\* C1: a cycle that starts in HEATING, COOLING or BAKING and decrements the
\* countdown from 1 to 0 ends in VENTILATION, whatever the handler selected.
C1_ForcedVentingOnExpiry ==
  [][(pc = "loop" /\ ovenState \in {HEATING, COOLING, BAKING} /\ Expires)
       => (ovenState' = VENTILATION /\ pc' = "loop")]_vars

\* C1 witness: the countdown has expired at the end of a HEATING cycle that
\* kept heating (fan forward, elements on), and the state is VENTILATION.
C1_Witness ==
  /\ ovenState = VENTILATION
  /\ pc = "loop"
  /\ inputTime = 0
  /\ FanForward
  /\ HeatingPower = 3

\* C2: the cycle after a setpoint with duration 0 was completed (HEATING
\* with countdown 0) ends in VENTILATION.
C2_ZeroDurationVents ==
  [][(AtCycle(HEATING) /\ inputTime = 0) => ovenState' = VENTILATION]_vars

\* C3: a HEATING cycle with all samples T < S commands fan forward and
\* power 3 if S - T >= 30, 2 if 20 <= S - T < 30, 1 if 0 < S - T < 20, and
\* stays in HEATING unless the countdown expires.
C3_HeatingPowerSelection ==
  [][\A T \in Temps :
       (AtCycle(HEATING) /\ Sampled(T) /\ T < inputTemperature)
         => /\ FanForward'
            /\ HeatingPower' = (IF inputTemperature - T >= 30 THEN 3
                                ELSE IF inputTemperature - T >= 20 THEN 2 ELSE 1)
            /\ EndsIn(HEATING)]_vars

\* C3 witness: after a HEATING cycle at deficit exactly 30, power is 3.
C3_Witness ==
  /\ ovenState = HEATING
  /\ pc = "loop"
  /\ steady
  /\ inputTemperature - reading = 30
  /\ FanForward
  /\ HeatingPower = 3

\* C4: a HEATING cycle with all samples T > S + 5 ends with the fan off,
\* heating power 0 and in COOLING (VENTILATION if the countdown expires).
C4_HeatingOvershoot ==
  [][\A T \in Temps :
       (AtCycle(HEATING) /\ Sampled(T) /\ T > inputTemperature + 5)
         => (FanOff' /\ HeatingPower' = 0 /\ EndsIn(COOLING))]_vars

\* C5: a VENTILATION cycle with all samples T >= 30 commands fan reverse and
\* power 0 and stays in VENTILATION; one with T < 30 enters the alarm loop,
\* which is left only after five pulses, with the alarm line low and into
\* END_OF_BAKING; the alarm line changes only inside that loop, i counting
\* the pulses completed.
C5_VentingRules ==
  [][/\ \A T \in Temps :
          (AtCycle(VENTILATION) /\ Sampled(T) /\ T >= 30)
            => /\ FanReverse'
               /\ HeatingPower' = 0
               /\ ovenState' = VENTILATION
               /\ pc' = "loop"
     /\ \A T \in Temps :
          (AtCycle(VENTILATION) /\ Sampled(T) /\ T < 30)
            => (pc' = "alarm" /\ i' = 0 /\ alarmPin' = LOW)
     /\ (pc = "alarm" /\ pc' = "loop")
          => (i = 5 /\ alarmPin = LOW /\ alarmPin' = LOW /\ ovenState' = END_OF_BAKING)
     /\ (alarmPin' # alarmPin)
          => /\ pc = "alarm" /\ pc' = "alarm"
             /\ ovenState = VENTILATION /\ ovenState' = VENTILATION
             /\ i < 5
             /\ i' = i + alarmPin
     /\ (pc = "alarm" /\ pc' = "alarm" /\ i' # i)
          => (alarmPin = HIGH /\ alarmPin' = LOW /\ i' = i + 1)]_vars

\* C5 witness: the alarm loop has just ended after a VENTILATION cycle that
\* sampled 29 throughout.
C5_Witness ==
  /\ ovenState = END_OF_BAKING
  /\ customKey = "#"
  /\ steady
  /\ reading = 29
  /\ alarmPin = LOW
  /\ pc = "loop"

\* C6: an END_OF_BAKING cycle that gets a key event of any of the 16 keys
\* ends in INPUT_PHASE with tempOrTime = 0 and an empty inputString.
C6_FinishedAcknowledgement ==
  [][(AtCycle(END_OF_BAKING) /\ customKey' \in hexaKeys)
       => (ovenState' = INPUT_PHASE /\ tempOrTime' = 0 /\ inputString' = <<>>)]_vars

\* C6 witness: INPUT_PHASE re-entered by the key '5', which is never keyed in
\* during entry here, so it is the key that acknowledged END_OF_BAKING; it
\* is not in inputString.
C6_Witness ==
  /\ ovenState = INPUT_PHASE
  /\ customKey = "5"
  /\ inputTemperature = 30
  /\ tempOrTime = 0
  /\ inputString = <<>>
  /\ inputTime = 0

\* C7: a COOLING cycle with all samples T: T > S + 5 commands fan reverse
\* and power 0 and stays in COOLING; T < S turns the fan off and selects
\* HEATING; otherwise it selects BAKING (VENTILATION if the countdown expires).
C7_CoolingRules ==
  [][\A T \in Temps :
       (AtCycle(COOLING) /\ Sampled(T))
         => IF T > inputTemperature + 5
              THEN FanReverse' /\ HeatingPower' = 0 /\ EndsIn(COOLING)
            ELSE IF T < inputTemperature
              THEN FanOff' /\ EndsIn(HEATING)
            ELSE EndsIn(BAKING)]_vars

\* C7 witness: COOLING kept by a cycle that sampled 36 > 30 + 5.
C7_Witness ==
  /\ ovenState = COOLING
  /\ pc = "loop"
  /\ steady
  /\ reading = inputTemperature + 6
  /\ FanReverse
  /\ HeatingPower = 0

\* C8: every BAKING cycle commands fan off and power 0; with all samples T
\* in [S, S + 5] it stays in BAKING (unless the countdown expires); with
\* all samples T it selects COOLING only if T > S + 5, HEATING only if T < S.
C8_BakingHold ==
  [][/\ AtCycle(BAKING) => (FanOff' /\ HeatingPower' = 0)
     /\ \A T \in Temps :
          (AtCycle(BAKING) /\ Sampled(T))
            => /\ (inputTemperature <= T /\ T <= inputTemperature + 5) => EndsIn(BAKING)
               /\ ovenState' = COOLING => T > inputTemperature + 5
               /\ ovenState' = HEATING => T < inputTemperature]_vars

\* C8 witness: BAKING held by a cycle that sampled 35 = 30 + 5 while the
\* countdown is still running.
C8_Witness ==
  /\ ovenState = BAKING
  /\ pc = "loop"
  /\ steady
  /\ reading = inputTemperature + 5
  /\ inputTime > 0
  /\ FanOff
  /\ HeatingPower = 0

\* C9: every END_OF_BAKING cycle ends with the fan off and power 0, and one
\* that gets no key event stays in END_OF_BAKING.
C9_FinishedQuiescent ==
  [][AtCycle(END_OF_BAKING)
       => /\ FanOff'
          /\ HeatingPower' = 0
          /\ customKey' = NO_KEY => (ovenState' = END_OF_BAKING /\ inputTime' = inputTime)]_vars

\* C9 witness: END_OF_BAKING after a cycle of it that got no key event.
C9_Witness ==
  /\ ovenState = END_OF_BAKING
  /\ pc = "loop"
  /\ customKey = NO_KEY
  /\ FanOff
  /\ HeatingPower = 0

\* C10: the countdown is never negative.
C10_CountdownNeverNegative == inputTime >= 0

\* The oven states of a running bake.
BakeStates == {HEATING, COOLING, BAKING}

\* C11: in a step from a state other than INPUT_PHASE the countdown is left
\* alone, together with the timing reference, or it is positive and is
\* decremented by exactly 1, at least 1000 ms after the timing reference,
\* which becomes the current instant; in a step from INPUT_PHASE the
\* countdown changes only by the assignment that completes a setpoint.
C11_CountdownStepping ==
  [][/\ ovenState # INPUT_PHASE
          => \/ inputTime' = inputTime /\ startTime1' = startTime1
             \/ /\ inputTime > 0
                /\ inputTime' = inputTime - 1
                /\ millis' - startTime1 >= 1000
                /\ startTime1' = millis'
     /\ (ovenState = INPUT_PHASE /\ inputTime' # inputTime)
          => (tempOrTime = 1 /\ customKey' = "#" /\ ovenState' = HEATING)]_vars

\* C11 witness: the countdown has been decremented twice without reaching
\* 0, the second time just now.
C11_Witness ==
  /\ ovenState \in BakeStates
  /\ inputTime = LONG_MAX - 2
  /\ startTime1 = millis

RECURSIVE DecimalDigits(_)
\* The decimal numeral of n >= 0, as a sequence of key characters.
DecimalDigits(n) ==
  LET d == CHOOSE k \in DigitKeys : KeyCode(k) - KeyCode("0") = n % 10
  IN  IF n < 10 THEN <<d>> ELSE Append(DecimalDigits(n \div 10), d)

RECURSIVE StripZeros(_)
\* The numeral s without its leading zeros.
StripZeros(s) ==
  IF Len(s) > 1 /\ s[1] = "0" THEN StripZeros(Tail(s)) ELSE s

\* The long v is the number the digits s write.
IsValueOf(v, s) == v >= 0 /\ DecimalDigits(v) = StripZeros(s)

\* C12: '#' on a non-empty entry in the temperature phase stores the entry
\* as the target and switches to the time phase; in the time phase it
\* stores the entry as the countdown and, in the same cycle, sets HEATING,
\* tempOrTime = 0, an empty inputString and startTime1 = the current instant.
C12_SetpointCompletion ==
  [][(AtCycle(INPUT_PHASE) /\ customKey' = "#" /\ Len(inputString) > 0)
       => IF tempOrTime = 0
            THEN /\ IsValueOf(inputTemperature', inputString)
                 /\ tempOrTime' = 1
                 /\ inputString' = <<>>
                 /\ ovenState' = INPUT_PHASE
            ELSE /\ IsValueOf(inputTime', inputString)
                 /\ ovenState' = HEATING
                 /\ tempOrTime' = 0
                 /\ inputString' = <<>>
                 /\ startTime1' = millis']_vars

\* C13: in INPUT_PHASE, '#' on an empty inputString and the keys A-D and *
\* change none of ovenState, tempOrTime, inputString, inputTemperature,
\* inputTime and startTime1.
C13_RejectedInputNoOp ==
  [][(/\ AtCycle(INPUT_PHASE)
      /\ \/ customKey' = "#" /\ inputString = <<>>
         \/ customKey' \in {"A", "B", "C", "D", "*"})
       => UNCHANGED <<ovenState, tempOrTime, inputString, inputTemperature,
                      inputTime, startTime1>>]_vars

\* C14: the initial state is INPUT_PHASE, and a step leaves INPUT_PHASE only
\* for HEATING, with '#' pressed in the time phase on a non-empty
\* inputString.
C14_InputLeftOnlyBySetpoint ==
  /\ ovenState = INPUT_PHASE
  /\ [][(ovenState = INPUT_PHASE /\ ovenState' # INPUT_PHASE)
          => /\ ovenState' = HEATING
             /\ customKey' = "#"
             /\ tempOrTime = 1
             /\ Len(inputString) > 0]_vars

\* C14 witness: HEATING just entered from INPUT_PHASE by the duration 1,
\* before any HEATING cycle has changed an output or the countdown.
C14_Witness ==
  /\ ovenState = HEATING
  /\ customKey = "#"
  /\ inputTime = 1
  /\ startTime1 = millis
  /\ FanOff
  /\ HeatingPower = 0

\* C15: a bake started with a duration of at least 1 second eventually
\* reaches VENTILATION. The countdown block is the only way there and it
\* runs only on a positive countdown, so in HEATING, COOLING and BAKING the
\* countdown of such a bake is never below 0 (0 itself comes only from a
\* duration of 0, which the claim leaves out).
C15_BakeCanStillExpire ==
  (pc = "loop" /\ ovenState \in BakeStates /\ inputTime # 0) => inputTime >= 1

\* C16: in a step from a state other than INPUT_PHASE the target temperature
\* does not change and the countdown stays or, being positive, goes down by 1.
C16_SetpointImmutable ==
  [][ovenState # INPUT_PHASE
       => /\ inputTemperature' = inputTemperature
          /\ \/ inputTime' = inputTime
             \/ inputTime > 0 /\ inputTime' = inputTime - 1]_vars

\* C16 witness: an END_OF_BAKING cycle has read the key '7' and returned to
\* INPUT_PHASE; the target of the bake is still 30 and the countdown 0.
C16_Witness ==
  /\ ovenState = INPUT_PHASE
  /\ customKey = "7"
  /\ inputTemperature = 30
  /\ inputTime = 0

\* C17: whenever the alarm line is high the heating power is 0.
C17_HeatersOffDuringAlarm == alarmPin = HIGH => HeatingPower = 0

\* C18: heating power above 0 implies the fan is not in reverse.
C18_NoHeatWithReverseFan == HeatingPower > 0 => ~FanReverse

\* C18 witness: COOLING entered by the overshoot branch of HEATING: the
\* elements are still on and the next COOLING cycle can drive the fan in
\* reverse.
C18_Witness ==
  /\ ovenState = COOLING
  /\ pc = "loop"
  /\ HeatingPower = 3
  /\ FanOff

\* C19: VENTILATION is entered only by a decrement of the countdown to 0,
\* END_OF_BAKING only from VENTILATION, INPUT_PHASE only from END_OF_BAKING;
\* in VENTILATION and END_OF_BAKING the countdown is 0, and no step leads
\* from them to HEATING, COOLING or BAKING.
C19_PhaseOrdering ==
  [][/\ (ovenState # VENTILATION /\ ovenState' = VENTILATION)
          => (inputTime = 1 /\ inputTime' = 0)
     /\ (ovenState # END_OF_BAKING /\ ovenState' = END_OF_BAKING)
          => ovenState = VENTILATION
     /\ (ovenState # INPUT_PHASE /\ ovenState' = INPUT_PHASE)
          => ovenState = END_OF_BAKING
     /\ ovenState' \in {VENTILATION, END_OF_BAKING} => inputTime' = 0
     /\ ovenState \in {VENTILATION, END_OF_BAKING}
          => ovenState' \in {VENTILATION, END_OF_BAKING, INPUT_PHASE}]_vars

\* C19 witness: END_OF_BAKING just entered from the alarm loop of
\* VENTILATION (the fan still in reverse), countdown 0.
C19_Witness ==
  /\ ovenState = END_OF_BAKING
  /\ pc = "loop"
  /\ customKey = "#"
  /\ inputTime = 0
  /\ FanReverse

\* C20: in a step from HEATING, COOLING, BAKING or VENTILATION no key is
\* read and tempOrTime, inputString and the target keep their values; the
\* state leaves HEATING, COOLING and BAKING only for VENTILATION with the
\* countdown decremented to 0, and leaves VENTILATION only for
\* END_OF_BAKING, from the alarm loop entered on samples below 30.
C20_NoAbortPath ==
  [][(ovenState \in BakeStates \cup {VENTILATION})
       => /\ customKey' = customKey
          /\ tempOrTime' = tempOrTime
          /\ inputString' = inputString
          /\ inputTemperature' = inputTemperature
          /\ (ovenState \in BakeStates /\ ovenState' \notin BakeStates)
               => (ovenState' = VENTILATION /\ inputTime = 1 /\ inputTime' = 0)
          /\ (ovenState = VENTILATION /\ ovenState' # VENTILATION)
               => (ovenState' = END_OF_BAKING /\ pc = "alarm" /\ reading < 30)
          /\ (ovenState = VENTILATION /\ pc' = "alarm") => (reading' < 30)]_vars

\* C20 witness: inside the alarm loop of a VENTILATION cycle that sampled
\* below 30, the only way out of VENTILATION.
C20_Witness ==
  /\ ovenState = VENTILATION
  /\ pc = "alarm"
  /\ i = 5
  /\ reading < 30

====
